---- MODULE Spec2Model ----
(***************************************************************************)
(* babytrack: the voice pipeline.                                          *)
(*                                                                         *)
(*   MicStateMachine        src/src/lib/MicStateMachine.ts                 *)
(*   WakeWordListener       src/src/lib/WakeWordListener.ts (lines 1-545)  *)
(*   StructuredVoiceLogger  src/unnamed/part_001 (lines 1-280)             *)
(*                                                                         *)
(*   BabyLoggerProvider     src/src/store/BabyLoggerContext.tsx            *)
(*   useVoiceRecognition    src/unnamed/part_012                           *)
(*                                                                         *)
(* The specifications share the variables:                               *)
(*   SpecMic      the state machine alone, driven through its six public   *)
(*                methods in any order;                                    *)
(*   SpecListener the listener with its embedded state machine, the speech *)
(*                engine and the permission prompt as environment;         *)
(*   SpecLogger   the logger: utterances, debounce timer, completion calls *)
(*                in flight.                                               *)
(*   SpecStore    the event store and the callback that commits the parsed *)
(*                responses to it.                                         *)
(* SpecGate, SpecSession and SpecPhrases are the listener restricted to    *)
(* the wake-word gate, the recognition session and the phrase setters.     *)
(*                                                                         *)
(* JavaScript runs each task to completion and drains the microtask queue  *)
(* before the next task.  A handler is therefore one action up to the      *)
(* first await of a promise that the environment settles (getUserMedia,    *)
(* the completion call); its continuation is another action.               *)
(***************************************************************************)
EXTENDS Integers, Sequences, FiniteSets, TLC

VARIABLES
    \* MicStateMachine
    state,                  \* MicStateMachine.state
    context,                \* MicStateMachine.context
    notified,               \* callbacks fired by the last transition (observer)
    micEvent,               \* the last event sent (observer)
    \* WakeWordListener
    wakeWord, sleepWord,
    recognitionActive,
    mediaStream,
    desiredListeningState,
    restartTimeout,
    pendingStarts,          \* start() calls suspended in getUserMedia
    engine,                 \* the SpeechRecognition object's own state
    liveStreams,            \* media streams whose tracks are running
    visibility,             \* document.visibilityState
    trace,                  \* callbacks made by the last handler, in order
    op,                     \* the last handler run and its input (observer)
    chain,                  \* engine ends in a row and the restarts between them (observer)
    forceStopped,           \* the page was hidden while recognition was active, and is still hidden (observer)
    listening,              \* the last value passed to onListeningChange (observer)
    \* StructuredVoiceLogger
    textBuffer,
    activeRequest,
    processTimeout,
    attempts,               \* the processUtterance calls made so far
    burst,                  \* fragments pushed since the timer last fired
    delivered,              \* onStructuredData invocations, in order
    errors,                 \* onError invocations, in order
    history,                \* utterance history behind addUtterance
    added,                  \* every text passed to addUtterance, the newest first (observer)
    \* BabyLoggerProvider and the voice hook
    events,                 \* the event store
    minted,                 \* crypto.randomUUID() calls made so far
    storeOp                 \* the last operation on the store and its input (observer)

micVars == <<state, context, notified, micEvent>>
listenerVars == <<wakeWord, sleepWord, recognitionActive, mediaStream,
                  desiredListeningState, restartTimeout, pendingStarts,
                  engine, liveStreams, visibility, trace, op, chain,
                  forceStopped, listening>>
loggerVars == <<textBuffer, activeRequest, processTimeout, attempts, burst,
                delivered, errors, history, added>>
storeVars == <<events, minted, storeOp>>
vars == <<micVars, listenerVars, loggerVars, storeVars>>

(***************************************************************************)
(* Bounds                                                                  *)
(***************************************************************************)
MaxAwakenings == 3       \* awakenings in one run
MaxStreams == 2          \* media streams alive at once
MaxPendingStarts == 2    \* start() calls waiting for the permission prompt
MaxBuffer == 2           \* fragments in the utterance buffer
MaxAttempts == 3         \* extraction attempts in one run
TickMs == 75             \* granularity of the clock
MaxEnds == 4             \* engine ends in a row that are counted
MaxEvents == 2           \* events in the store
MaxMinted == 2           \* identifiers minted in one run
MaxImport == 2           \* events in one imported file
MaxAdded == 2            \* addUtterance calls beyond a full history

(***************************************************************************)
(* MicStateMachine                                                         *)
(***************************************************************************)
MicStates == {"DISABLED", "REQUESTING_PERMISSION", "SLEEPING", "AWAKE"}

MicEvents == {"ENABLE", "PERMISSION_GRANTED", "PERMISSION_DENIED",
              "DISABLE", "WAKE", "SLEEP"}

NoError == "undefined"
ErrPermissionDenied == "Microphone permission denied"
ErrCannotWake == "Cannot wake without microphone permission"

InitialContext == [hasPermission |-> FALSE, error |-> NoError, awakeningId |-> 0]

\* case 'DISABLED' with a late grant accepted.
WhenDisabled_LateGrant(ctx, ev) ==
    IF ev = "ENABLE"
    THEN [state |-> "REQUESTING_PERMISSION", context |-> [ctx EXCEPT !.error = NoError]]
    ELSE IF ev = "PERMISSION_GRANTED"
    THEN [state |-> "SLEEPING", context |-> [ctx EXCEPT !.hasPermission = TRUE]]
    ELSE [state |-> "DISABLED", context |-> ctx]

\* case 'DISABLED' with the context started afresh on ENABLE.
WhenDisabled_FreshContext(ctx, ev) ==
    IF ev = "ENABLE"
    THEN [state |-> "REQUESTING_PERMISSION",
          context |-> [ctx EXCEPT !.error = NoError, !.awakeningId = 0]]
    ELSE [state |-> "DISABLED", context |-> ctx]

\* case 'DISABLED' with the error kept on ENABLE.
WhenDisabled_KeepsError(ctx, ev) ==
    IF ev = "ENABLE"
    THEN [state |-> "REQUESTING_PERMISSION", context |-> ctx]
    ELSE [state |-> "DISABLED", context |-> ctx]

\* case 'DISABLED'
WhenDisabled(ctx, ev) ==
    IF ev = "ENABLE"
    THEN [state |-> "REQUESTING_PERMISSION", context |-> [ctx EXCEPT !.error = NoError]]
    ELSE [state |-> "DISABLED", context |-> ctx]

\* case 'REQUESTING_PERMISSION' with the grant not recorded in the context.
WhenRequestingPermission_GrantForgets(ctx, ev) ==
    CASE ev = "PERMISSION_GRANTED" ->
            [state |-> "SLEEPING", context |-> [ctx EXCEPT !.error = NoError]]
      [] ev = "PERMISSION_DENIED" ->
            [state |-> "DISABLED",
             context |-> [ctx EXCEPT !.hasPermission = FALSE,
                                     !.error = ErrPermissionDenied]]
      [] ev = "DISABLE" -> [state |-> "DISABLED", context |-> ctx]
      [] OTHER -> [state |-> "REQUESTING_PERMISSION", context |-> ctx]

\* case 'REQUESTING_PERMISSION'
WhenRequestingPermission(ctx, ev) ==
    CASE ev = "PERMISSION_GRANTED" ->
            [state |-> "SLEEPING",
             context |-> [ctx EXCEPT !.hasPermission = TRUE, !.error = NoError]]
      [] ev = "PERMISSION_DENIED" ->
            [state |-> "DISABLED",
             context |-> [ctx EXCEPT !.hasPermission = FALSE,
                                     !.error = ErrPermissionDenied]]
      [] ev = "DISABLE" -> [state |-> "DISABLED", context |-> ctx]
      [] OTHER -> [state |-> "REQUESTING_PERMISSION", context |-> ctx]

\* case 'SLEEPING' with WAKE accepted without a look at the permission.
WhenSleeping_WakeUnguarded(ctx, ev) ==
    CASE ev = "DISABLE" -> [state |-> "DISABLED", context |-> ctx]
      [] ev = "WAKE" ->
            [state |-> "AWAKE",
             context |-> [ctx EXCEPT !.awakeningId = @ + 1, !.error = NoError]]
      [] ev = "PERMISSION_DENIED" ->
            [state |-> "DISABLED",
             context |-> [ctx EXCEPT !.hasPermission = FALSE,
                                     !.error = ErrPermissionDenied]]
      [] OTHER -> [state |-> "SLEEPING", context |-> ctx]

\* case 'SLEEPING'
WhenSleeping(ctx, ev) ==
    CASE ev = "DISABLE" -> [state |-> "DISABLED", context |-> ctx]
      [] ev = "WAKE" ->
            IF ctx.hasPermission
            THEN [state |-> "AWAKE",
                  context |-> [ctx EXCEPT !.awakeningId = @ + 1, !.error = NoError]]
            ELSE [state |-> "DISABLED",
                  context |-> [ctx EXCEPT !.error = ErrCannotWake]]
      [] ev = "PERMISSION_DENIED" ->
            [state |-> "DISABLED",
             context |-> [ctx EXCEPT !.hasPermission = FALSE,
                                     !.error = ErrPermissionDenied]]
      [] OTHER -> [state |-> "SLEEPING", context |-> ctx]

\* case 'AWAKE' with SLEEP switching the microphone off.
WhenAwake_SleepDisables(ctx, ev) ==
    CASE ev = "DISABLE" -> [state |-> "DISABLED", context |-> ctx]
      [] ev = "SLEEP" -> [state |-> "DISABLED", context |-> ctx]
      [] ev = "PERMISSION_DENIED" ->
            [state |-> "DISABLED",
             context |-> [ctx EXCEPT !.hasPermission = FALSE,
                                     !.error = ErrPermissionDenied]]
      [] OTHER -> [state |-> "AWAKE", context |-> ctx]

\* case 'AWAKE'
WhenAwake(ctx, ev) ==
    CASE ev = "DISABLE" -> [state |-> "DISABLED", context |-> ctx]
      [] ev = "SLEEP" -> [state |-> "SLEEPING", context |-> ctx]
      [] ev = "PERMISSION_DENIED" ->
            [state |-> "DISABLED",
             context |-> [ctx EXCEPT !.hasPermission = FALSE,
                                     !.error = ErrPermissionDenied]]
      [] OTHER -> [state |-> "AWAKE", context |-> ctx]

\* The switch of transition(): the state and context after the event.
MicSwitch(st, ctx, ev) ==
    CASE st = "DISABLED" -> WhenDisabled(ctx, ev)
      [] st = "REQUESTING_PERMISSION" -> WhenRequestingPermission(ctx, ev)
      [] st = "SLEEPING" -> WhenSleeping(ctx, ev)
      [] st = "AWAKE" -> WhenAwake(ctx, ev)

\* transition() with onStateChange invoked for every event.
MicTransition_NotifyAlways(st, ctx, ev) ==
    LET next == MicSwitch(st, ctx, ev) IN
    [state |-> next.state,
     context |-> next.context,
     stateChange |-> TRUE,
     error |-> (next.context.error # NoError /\ next.context.error # ctx.error)]

\* transition(): the switch, then the two notifications.
MicTransition(st, ctx, ev) ==
    LET next == MicSwitch(st, ctx, ev) IN
    [state |-> next.state,
     context |-> next.context,
     stateChange |-> (next.state # st \/ next.context # ctx),
     error |-> (next.context.error # NoError /\ next.context.error # ctx.error)]

\* The state machine on its own: one public method is called.
Send(ev) ==
    LET t == MicTransition(state, context, ev) IN
    /\ t.context.awakeningId <= MaxAwakenings
    /\ state' = t.state
    /\ context' = t.context
    /\ notified' = [stateChange |-> t.stateChange, error |-> t.error]
    /\ micEvent' = ev
    /\ UNCHANGED <<listenerVars, loggerVars, storeVars>>

enable == Send("ENABLE")
disable == Send("DISABLE")
wake == Send("WAKE")
sleep == Send("SLEEP")
permissionGranted == Send("PERMISSION_GRANTED")
permissionDenied == Send("PERMISSION_DENIED")

(***************************************************************************)
(* Text: JavaScript strings are TLA+ strings; the String methods the code   *)
(* calls are computed character by character.                              *)
(***************************************************************************)
CharAt(s, i) == SubSeq(s, i, i)

LowerChar(c) ==
    CASE c = "H" -> "h"
      [] c = "B" -> "b"
      [] c = "S" -> "s"
      [] OTHER -> c

RECURSIVE ToLowerCase(_)
ToLowerCase(s) ==
    IF Len(s) = 0 THEN ""
    ELSE LowerChar(CharAt(s, 1)) \o ToLowerCase(SubSeq(s, 2, Len(s)))

RECURSIVE TrimStart(_)
TrimStart(s) ==
    IF Len(s) > 0 /\ CharAt(s, 1) = " " THEN TrimStart(SubSeq(s, 2, Len(s))) ELSE s

RECURSIVE TrimEnd(_)
TrimEnd(s) ==
    IF Len(s) > 0 /\ CharAt(s, Len(s)) = " " THEN TrimEnd(SubSeq(s, 1, Len(s) - 1)) ELSE s

Trim(s) == TrimEnd(TrimStart(s))

\* String.prototype.indexOf, 1-based; 0 when w does not occur in s.
IndexOf(s, w) ==
    LET hits == {i \in 1..(Len(s) - Len(w) + 1) : SubSeq(s, i, i + Len(w) - 1) = w}
    IN IF hits = {} THEN 0 ELSE CHOOSE i \in hits : \A j \in hits : i <= j

Includes(s, w) == IndexOf(s, w) # 0

\* String.prototype.split with a non-empty separator.
RECURSIVE Split(_, _)
Split(s, w) ==
    LET i == IndexOf(s, w) IN
    IF i = 0 THEN <<s>>
    ELSE <<SubSeq(s, 1, i - 1)>> \o Split(SubSeq(s, i + Len(w), Len(s)), w)

(***************************************************************************)
(* WakeWordListener.  A handler is a function from the listener's fields   *)
(* (with the state machine's and the environment's) to the same: L below   *)
(* is that record, and the callbacks a handler makes are appended to       *)
(* L.trace in the order the code makes them.                               *)
(***************************************************************************)
NoStream == 0
NoThrow == "none"

L ==
    [state |-> state, context |-> context,
     wakeWord |-> wakeWord, sleepWord |-> sleepWord,
     recognitionActive |-> recognitionActive,
     mediaStream |-> mediaStream,
     desiredListeningState |-> desiredListeningState,
     restartTimeout |-> restartTimeout,
     engine |-> engine, liveStreams |-> liveStreams,
     trace |-> <<>>, thrown |-> NoThrow]

\* The callbacks of WakeWordListenerConfig, as entries of the trace.
onStateChange(isAwake, awakeningId) ==
    [cb |-> "onStateChange", text |-> "", flag |-> isAwake, awakeningId |-> awakeningId]
onError(message) == [cb |-> "onError", text |-> message, flag |-> FALSE, awakeningId |-> 0]
onUtterance(text) == [cb |-> "onUtterance", text |-> text, flag |-> FALSE, awakeningId |-> 0]
onListeningChange(isListening) ==
    [cb |-> "onListeningChange", text |-> "", flag |-> isListening, awakeningId |-> 0]

Callback(s, entry) == [s EXCEPT !.trace = Append(@, entry)]

\* The last handler and its input, for the observer op.
Op(name) == [name |-> name, text |-> "", flag |-> FALSE, called |-> "",
             threw |-> FALSE, held |-> 0]

\* this.stateMachine.<event>(): the transition, then the two callbacks the
\* constructor wired to the listener's onStateChange and onError.
StateMachine(s, ev) ==
    LET t == MicTransition(s.state, s.context, ev)
        s1 == [s EXCEPT !.state = t.state, !.context = t.context]
        s2 == IF t.stateChange
              THEN Callback(s1, onStateChange(t.state = "AWAKE", t.context.awakeningId))
              ELSE s1
    IN IF t.error THEN Callback(s2, onError(t.context.error)) ELSE s2

setRecognitionActive(s, active) ==
    IF s.recognitionActive # active
    THEN Callback([s EXCEPT !.recognitionActive = active], onListeningChange(active))
    ELSE s

\* Wake word detection with the content after the first wake word forwarded.
wakeWordDetected_FirstPart(s, transcript) ==
    LET s1 == StateMachine(s, "WAKE")
        parts == Split(transcript, s.wakeWord)
        afterWake == Trim(parts[2])
    IN IF afterWake # "" /\ ~Includes(afterWake, s.sleepWord)
       THEN Callback(s1, onUtterance(afterWake))
       ELSE s1

\* Wake word detection with empty content after the wake word forwarded too.
wakeWordDetected_ForwardEmpty(s, transcript) ==
    LET s1 == StateMachine(s, "WAKE")
        parts == Split(transcript, s.wakeWord)
        afterWake == Trim(parts[Len(parts)])
    IN IF ~Includes(afterWake, s.sleepWord)
       THEN Callback(s1, onUtterance(afterWake))
       ELSE s1

\* Wake word detection (178-191): wake, then the content after the last
\* wake word.
wakeWordDetected(s, transcript) ==
    LET s1 == StateMachine(s, "WAKE")
        parts == Split(transcript, s.wakeWord)
        afterWake == Trim(parts[Len(parts)])
    IN IF afterWake # "" /\ ~Includes(afterWake, s.sleepWord)
       THEN Callback(s1, onUtterance(afterWake))
       ELSE s1

\* Sleep word detection with the transition made before the forwarding.
sleepWordDetected_SleepFirst(s, transcript) ==
    LET parts == Split(transcript, s.sleepWord)
        beforeSleep == Trim(parts[1])
        s1 == StateMachine(s, "SLEEP")
    IN IF beforeSleep # "" /\ ~Includes(beforeSleep, s.wakeWord)
       THEN Callback(s1, onUtterance(beforeSleep))
       ELSE s1

\* Sleep word detection (193-207): the content before the first sleep word,
\* then sleep.
sleepWordDetected(s, transcript) ==
    LET parts == Split(transcript, s.sleepWord)
        beforeSleep == Trim(parts[1])
        s1 == IF beforeSleep # "" /\ ~Includes(beforeSleep, s.wakeWord)
              THEN Callback(s, onUtterance(beforeSleep))
              ELSE s
    IN StateMachine(s1, "SLEEP")

\* handleResult() without the return on interim results.
handleResult_InterimToo(s, rawTranscript, isFinal) ==
    LET transcript == Trim(ToLowerCase(rawTranscript)) IN
    IF s.state # "AWAKE" /\ Includes(transcript, s.wakeWord)
    THEN wakeWordDetected(s, transcript)
    ELSE IF s.state = "AWAKE" /\ Includes(transcript, s.sleepWord)
    THEN sleepWordDetected(s, transcript)
    ELSE IF s.state = "AWAKE" THEN Callback(s, onUtterance(transcript))
    ELSE IF transcript = s.wakeWord THEN StateMachine(s, "WAKE")
    ELSE IF transcript = s.sleepWord THEN StateMachine(s, "SLEEP")
    ELSE s

\* handleResult() with the normal utterance forwarded whatever the state.
handleResult_ForwardAsleep(s, rawTranscript, isFinal) ==
    LET transcript == Trim(ToLowerCase(rawTranscript)) IN
    IF ~isFinal THEN s
    ELSE IF s.state # "AWAKE" /\ Includes(transcript, s.wakeWord)
    THEN wakeWordDetected(s, transcript)
    ELSE IF s.state = "AWAKE" /\ Includes(transcript, s.sleepWord)
    THEN sleepWordDetected(s, transcript)
    ELSE Callback(s, onUtterance(transcript))

handleResult(s, rawTranscript, isFinal) ==
    LET transcript == Trim(ToLowerCase(rawTranscript)) IN
    IF ~isFinal THEN s
    ELSE IF s.state # "AWAKE" /\ Includes(transcript, s.wakeWord)
    THEN wakeWordDetected(s, transcript)
    ELSE IF s.state = "AWAKE" /\ Includes(transcript, s.sleepWord)
    THEN sleepWordDetected(s, transcript)
    ELSE IF s.state = "AWAKE" THEN Callback(s, onUtterance(transcript))
    ELSE IF transcript = s.wakeWord THEN StateMachine(s, "WAKE")
    ELSE IF transcript = s.sleepWord THEN StateMachine(s, "SLEEP")
    ELSE s

\* The timer callback at 264-287 never clears this.restartTimeout, so the
\* field is "fired" (a stale, non-null id) once the timer has run.
restartRecognition(s) == [s EXCEPT !.restartTimeout = "armed"]

\* handleError() with a denial treated like any other error.
handleError_DenialRestarts(s, error) ==
    LET s1 == Callback(s, onError("Speech recognition error: " \o error)) IN
    IF s1.state # "DISABLED" /\ s1.desiredListeningState
    THEN restartRecognition(s1)
    ELSE s1

handleError(s, error) ==
    IF error \in {"not-allowed", "permission-denied"}
    THEN setRecognitionActive(StateMachine(s, "PERMISSION_DENIED"), FALSE)
    ELSE LET s1 == Callback(s, onError("Speech recognition error: " \o error)) IN
         IF s1.state # "DISABLED" /\ s1.desiredListeningState
         THEN restartRecognition(s1)
         ELSE s1

handleEnd(s) ==
    LET s1 == setRecognitionActive(s, FALSE) IN
    IF s1.state # "DISABLED" /\ s1.restartTimeout = "null" /\ s1.desiredListeningState
    THEN restartRecognition(s1)
    ELSE s1

\* recognition.start() throws InvalidStateError unless the engine is idle.
startRecognition(s) ==
    IF s.recognitionActive \/ s.state \in {"DISABLED", "REQUESTING_PERMISSION"} THEN s
    ELSE IF s.mediaStream = NoStream THEN [s EXCEPT !.thrown = "No media stream available"]
    ELSE LET s1 == setRecognitionActive(s, TRUE) IN
         IF s1.engine = "idle"
         THEN [s1 EXCEPT !.engine = "running"]
         ELSE [setRecognitionActive(s1, FALSE) EXCEPT !.thrown = "InvalidStateError"]

\* recognition.stop(): a running engine winds down and will deliver its end
\* event; the call may throw, and then leaves the engine as it was.
EngineStop(s, throws) ==
    IF throws THEN [s EXCEPT !.thrown = "stop failed"]
    ELSE [s EXCEPT !.engine = IF @ = "running" THEN "stopping" ELSE @]

stopRecognition(s, throws) ==
    IF ~s.recognitionActive THEN s
    ELSE EngineStop(setRecognitionActive(s, FALSE), throws)

cleanupMediaStream(s) ==
    IF s.mediaStream # NoStream
    THEN [s EXCEPT !.liveStreams = @ \ {s.mediaStream}, !.mediaStream = NoStream]
    ELSE s

\* stop() with the cleanup inside the try, after recognition.stop().
stop_CleanupInsideTry(s, throws) ==
    LET s1 == StateMachine(s, "DISABLE")
        s2 == [s1 EXCEPT !.restartTimeout = "null", !.recognitionActive = FALSE]
        s3 == [EngineStop(s2, throws) EXCEPT !.thrown = NoThrow]
    IN IF throws THEN s3 ELSE cleanupMediaStream(s3)

stop(s, throws) ==
    LET s1 == StateMachine(s, "DISABLE")
        s2 == [s1 EXCEPT !.restartTimeout = "null", !.recognitionActive = FALSE]
        s3 == [EngineStop(s2, throws) EXCEPT !.thrown = NoThrow]
    IN cleanupMediaStream(s3)

\* updateWakeWord() that also stops the recognition session.
updateWakeWord_Restart(s, word) ==
    [stopRecognition(s, FALSE) EXCEPT !.wakeWord = ToLowerCase(word)]

updateWakeWord(s, word) == [s EXCEPT !.wakeWord = ToLowerCase(word)]

updateSleepWord(s, word) == [s EXCEPT !.sleepWord = ToLowerCase(word)]

\* start() up to the await of getUserMedia.
startCall(s) == StateMachine(s, "ENABLE")

\* start() resumed with the stream getUserMedia resolved to.
startGranted(s, stream) ==
    LET s1 == [s EXCEPT !.mediaStream = stream, !.liveStreams = @ \cup {stream}]
        s2 == StateMachine(s1, "PERMISSION_GRANTED")
        s3 == startRecognition(s2)
    IN IF s3.thrown # NoThrow
       THEN Callback(StateMachine(s3, "PERMISSION_DENIED"), onError(s3.thrown))
       ELSE s3

\* start() resumed with getUserMedia rejected: requestPermissions() reports
\* the denial and rethrows, and the catch in start() reports it again.
startDenied(s) ==
    LET s1 == StateMachine(s, "PERMISSION_DENIED")
        s2 == StateMachine(s1, "PERMISSION_DENIED")
    IN Callback([s2 EXCEPT !.thrown = "NotAllowedError"], onError("NotAllowedError"))

(***************************************************************************)
(* The listener's actions: public methods, engine events, timer, prompt.   *)
(***************************************************************************)
\* Final transcripts for the wake-word gate, and the interim ones.
Transcripts ==
    {"hey baby bottle sixty ml", "Hey Baby", "hey baby sleep",
     "hey baby one hey baby two", "feeding done now sleep", "Sleep",
     "nap sleep more sleep", " wet diaper "}

InterimTranscripts == {"hey baby bot", "sleep"}

Results == (Transcripts \X {TRUE}) \cup (InterimTranscripts \X {FALSE})

\* The results the lifecycle specification delivers.
Commands == {<<"hey baby", TRUE>>, <<"sleep", TRUE>>, <<"bottle", TRUE>>, <<"hey baby", FALSE>>}

RecognitionErrors == {"not-allowed", "permission-denied", "no-speech", "network"}

\* The observer chain: the engine's end events that followed one another
\* with nothing but the restart timer in between while listening was desired
\* and the machine not Disabled, and the calls of startRecognition() the
\* restart timer made between them.
NoChain == [ends |-> 0, restarts |-> 0]

Chain(o) ==
    CASE o.name = "handleEnd" ->
            IF desiredListeningState /\ state # "DISABLED"
            THEN [chain EXCEPT !.ends = IF @ < MaxEnds THEN @ + 1 ELSE @]
            ELSE NoChain
      [] o.name = "restartTimer" ->
            IF state # "DISABLED" /\ ~recognitionActive
            THEN [chain EXCEPT !.restarts = IF @ < MaxEnds THEN @ + 1 ELSE @]
            ELSE chain
      [] OTHER -> NoChain

\* The observer forceStopped: the visibilitychange handler found recognition
\* active when the page was hidden, and the page has not been visible since.
ForceStopped(o) ==
    IF o.name = "visibilitychange"
    THEN o.text = "hidden" /\ recognitionActive
    ELSE forceStopped

\* The observer listening: the value of the last onListeningChange callback
\* among those the handler made, or the value before when it made none.
Listening(callbacks) ==
    LET made == {i \in 1..Len(callbacks) : callbacks[i].cb = "onListeningChange"} IN
    IF made = {} THEN listening
    ELSE callbacks[CHOOSE i \in made : \A j \in made : j <= i].flag

Commit(s, o) ==
    /\ s.context.awakeningId <= MaxAwakenings
    /\ state' = s.state
    /\ context' = s.context
    /\ wakeWord' = s.wakeWord
    /\ sleepWord' = s.sleepWord
    /\ recognitionActive' = s.recognitionActive
    /\ mediaStream' = s.mediaStream
    /\ desiredListeningState' = s.desiredListeningState
    /\ restartTimeout' = s.restartTimeout
    /\ engine' = s.engine
    /\ liveStreams' = s.liveStreams
    /\ trace' = s.trace
    /\ op' = o
    /\ chain' = Chain(o)
    /\ forceStopped' = ForceStopped(o)
    /\ listening' = Listening(s.trace)
    /\ UNCHANGED <<notified, micEvent, loggerVars, storeVars>>

Start ==
    /\ pendingStarts < MaxPendingStarts
    /\ pendingStarts' = pendingStarts + 1
    /\ UNCHANGED visibility
    /\ Commit(startCall(L), [Op("start") EXCEPT !.called = "start"])

Stop ==
    \E throws \in BOOLEAN :
        /\ UNCHANGED <<pendingStarts, visibility>>
        /\ Commit(stop(L, throws),
                  [Op("stop") EXCEPT !.called = "stop", !.threw = throws, !.held = mediaStream])

SetListening ==
    \E shouldListen \in BOOLEAN, throws \in BOOLEAN :
        LET s == [L EXCEPT !.desiredListeningState = shouldListen] IN
        /\ UNCHANGED visibility
        /\ IF shouldListen /\ ~recognitionActive THEN
               /\ pendingStarts < MaxPendingStarts
               /\ pendingStarts' = pendingStarts + 1
               /\ ~throws
               /\ Commit(startCall(s),
                         [Op("setListening") EXCEPT !.flag = shouldListen, !.called = "start"])
           ELSE IF ~shouldListen /\ recognitionActive THEN
               /\ UNCHANGED pendingStarts
               /\ Commit(stop(s, throws),
                         [Op("setListening") EXCEPT !.flag = shouldListen, !.called = "stop",
                                                    !.threw = throws, !.held = mediaStream])
           ELSE
               /\ UNCHANGED pendingStarts
               /\ ~throws
               /\ Commit(s, [Op("setListening") EXCEPT !.flag = shouldListen])

GetUserMediaResolves ==
    /\ pendingStarts > 0
    /\ \E stream \in 1..MaxStreams :
        /\ stream \notin liveStreams
        /\ \A other \in 1..MaxStreams : other \notin liveStreams => stream <= other
        /\ pendingStarts' = pendingStarts - 1
        /\ UNCHANGED visibility
        /\ Commit([startGranted(L, stream) EXCEPT !.thrown = NoThrow],
                  [Op("getUserMedia") EXCEPT !.text = "granted",
                       !.threw = startGranted(L, stream).thrown # NoThrow])

GetUserMediaRejects ==
    /\ pendingStarts > 0
    /\ pendingStarts' = pendingStarts - 1
    /\ UNCHANGED visibility
    /\ Commit([startDenied(L) EXCEPT !.thrown = NoThrow],
              [Op("getUserMedia") EXCEPT !.text = "denied",
                   !.threw = startDenied(L).thrown # NoThrow])

HandleResultFrom(results) ==
    \E r \in results :
        /\ engine \in {"running", "stopping"}
        /\ UNCHANGED <<pendingStarts, visibility>>
        /\ Commit(handleResult(L, r[1], r[2]),
                  [Op("handleResult") EXCEPT !.text = r[1], !.flag = r[2]])

HandleResult == HandleResultFrom(Results)

HandleCommand == HandleResultFrom(Commands)

\* The phrases the settings can hold, and final transcripts that tell them
\* apart.
WakeWords == {"hey baby", "Hey Bub"}

SleepWords == {"sleep", "Hush"}

PhraseTranscripts ==
    {"hey baby bottle", "Hey Bub bottle", "bottle sleep", "bottle hush"}

HandlePhrase == HandleResultFrom(PhraseTranscripts \X {TRUE})

UpdateWakeWord ==
    \E word \in WakeWords :
        /\ UNCHANGED <<pendingStarts, visibility>>
        /\ Commit(updateWakeWord(L, word), [Op("updateWakeWord") EXCEPT !.text = word])

UpdateSleepWord ==
    \E word \in SleepWords :
        /\ UNCHANGED <<pendingStarts, visibility>>
        /\ Commit(updateSleepWord(L, word), [Op("updateSleepWord") EXCEPT !.text = word])

\* The engine reports an error and then ends.
HandleError ==
    \E error \in RecognitionErrors :
        /\ engine = "running"
        /\ UNCHANGED <<pendingStarts, visibility>>
        /\ Commit(handleError([L EXCEPT !.engine = "stopping"], error),
                  [Op("handleError") EXCEPT !.text = error])

HandleEnd ==
    /\ engine \in {"running", "stopping"}
    /\ UNCHANGED <<pendingStarts, visibility>>
    /\ Commit(handleEnd([L EXCEPT !.engine = "idle"]), Op("handleEnd"))

\* The callback of restartRecognition's timer.  startRecognition() is async,
\* so a failure is a rejected promise nobody handles: the catch at 274-286
\* (the 1000 ms retry) cannot run.
RestartTimer ==
    /\ restartTimeout = "armed"
    /\ UNCHANGED <<pendingStarts, visibility>>
    /\ LET s == [L EXCEPT !.restartTimeout = "fired"]
           s1 == IF s.state = "DISABLED" \/ s.recognitionActive
                 THEN s
                 ELSE startRecognition(s)
       IN Commit([s1 EXCEPT !.thrown = NoThrow],
                 [Op("restartTimer") EXCEPT !.threw = s1.thrown # NoThrow])

\* The engine's sound and speech events: the handlers the constructor
\* installs (124-143) only log and call onDebug.
SoundEvents == {"soundstart", "soundend", "speechstart", "speechend"}

HandleSound ==
    \E event \in SoundEvents :
        /\ engine = "running"
        /\ UNCHANGED <<pendingStarts, visibility>>
        /\ Commit(L, Op(event))

HandleVisibilityChange ==
    \E v \in {"hidden", "visible"}, throws \in BOOLEAN :
        /\ v # visibility
        /\ visibility' = v
        /\ UNCHANGED pendingStarts
        /\ IF v = "hidden" THEN
               /\ throws => recognitionActive
               /\ Commit([stopRecognition(L, throws) EXCEPT !.thrown = NoThrow],
                         [Op("visibilitychange") EXCEPT !.text = v])
           ELSE
               /\ ~throws
               /\ LET s == IF desiredListeningState THEN startRecognition(L) ELSE L IN
                  Commit(IF s.thrown # NoThrow
                         THEN [Callback(s, onError(s.thrown)) EXCEPT !.thrown = NoThrow]
                         ELSE s,
                         [Op("visibilitychange") EXCEPT !.text = v,
                                                        !.threw = s.thrown # NoThrow])

(***************************************************************************)
(* StructuredVoiceLogger.  attempts[k] is the k-th processUtterance call:  *)
(* its request token (cancelled), the text it submitted, and where it      *)
(* stands: "sent" while the completion call is in flight, then how it      *)
(* ended.  activeRequest is the index of the token the field refers to.    *)
(***************************************************************************)
NoRequest == 0
NoTimeout == -1
DebounceMs == 150
MaxHistory == 10

Fragments == {"bottle", "sixty ml"}

\* What the completion call does: it rejects, or it resolves with content.
Contents == {"object", "null", "truncated"}
Outcomes == {"rejected"} \cup Contents

\* Array.prototype.join
RECURSIVE Join(_, _)
Join(array, separator) ==
    IF Len(array) = 0 THEN ""
    ELSE IF Len(array) = 1 THEN array[1]
    ELSE array[1] \o separator \o Join(Tail(array), separator)

\* parseResponse(): JSON5.parse of the content; plain text does not parse.
parseResponse(response) ==
    IF response = "truncated"
    THEN [threw |-> TRUE, value |-> "undefined"]
    ELSE [threw |-> FALSE, value |-> response]

Truthy(value) == value # "null"

\* addUtterance with ten of the previous entries kept.
addUtterance_KeepTen(prev, text) ==
    <<text>> \o SubSeq(prev, 1, IF Len(prev) < MaxHistory THEN Len(prev) ELSE MaxHistory)

\* addUtterance of the voice hook: newest first, the last ten kept.
addUtterance(prev, text) ==
    <<text>> \o SubSeq(prev, 1, IF Len(prev) < MaxHistory - 1 THEN Len(prev) ELSE MaxHistory - 1)

\* The hook's addUtterance callback, called on its own.
AddUtterance ==
    \E text \in Fragments :
        /\ Len(added) < MaxHistory + MaxAdded
        /\ history' = addUtterance(history, text)
        /\ added' = <<text>> \o added
        /\ UNCHANGED <<textBuffer, activeRequest, processTimeout, attempts, burst,
                       delivered, errors>>
        /\ UNCHANGED <<micVars, listenerVars, storeVars>>

\* listener.onUtterance as the constructor installs it, with debouncedProcess.
OnUtterance ==
    \E text \in Fragments :
        /\ Len(textBuffer) < MaxBuffer
        /\ textBuffer' = Append(textBuffer, text)
        /\ processTimeout' = DebounceMs
        /\ burst' = Append(burst, text)
        /\ UNCHANGED <<activeRequest, attempts, delivered, errors, history, added>>
        /\ UNCHANGED <<micVars, listenerVars, storeVars>>

\* Time passes while the debounce timer runs.
Tick ==
    /\ processTimeout # NoTimeout
    /\ processTimeout > 0
    /\ processTimeout' = IF processTimeout > TickMs THEN processTimeout - TickMs ELSE 0
    /\ UNCHANGED <<textBuffer, activeRequest, attempts, burst, delivered, errors, history, added>>
    /\ UNCHANGED <<micVars, listenerVars, storeVars>>

\* tryProcessBuffer() without the cancellation of the previous request.
tryProcessBuffer_NoCancel ==
    IF Len(textBuffer) = 0
    THEN UNCHANGED <<activeRequest, attempts>>
    ELSE /\ Len(attempts) < MaxAttempts
         /\ LET text == Join(textBuffer, " ")
                request == [cancelled |-> FALSE, text |-> text,
                            buffer |-> textBuffer, status |-> "sent"]
            IN /\ attempts' = Append(attempts, request)
               /\ activeRequest' = Len(attempts) + 1

\* tryProcessBuffer() with processUtterance() up to the await of the
\* completion call.
tryProcessBuffer ==
    IF Len(textBuffer) = 0
    THEN UNCHANGED <<activeRequest, attempts>>
    ELSE /\ Len(attempts) < MaxAttempts
         /\ LET text == Join(textBuffer, " ")
                request == [cancelled |-> FALSE, text |-> text,
                            buffer |-> textBuffer, status |-> "sent"]
                previous == IF activeRequest # NoRequest
                            THEN [attempts EXCEPT ![activeRequest].cancelled = TRUE]
                            ELSE attempts
            IN /\ attempts' = Append(previous, request)
               /\ activeRequest' = Len(attempts) + 1

\* The debounce timer fires.
DebounceTimer ==
    /\ processTimeout # NoTimeout
    /\ processTimeout <= 0
    /\ processTimeout' = NoTimeout
    /\ burst' = <<>>
    /\ tryProcessBuffer
    /\ UNCHANGED <<textBuffer, delivered, errors, history, added>>
    /\ UNCHANGED <<micVars, listenerVars, storeVars>>

\* processUtterance() without the look at the token after the await.
processUtterance_NoTokenCheck(k, outcome) ==
    IF outcome = "rejected" THEN [threw |-> TRUE, cancelled |-> FALSE]
    ELSE LET parsed == parseResponse(outcome) IN
         IF parsed.threw THEN [threw |-> TRUE, cancelled |-> FALSE]
         ELSE [threw |-> FALSE, value |-> parsed.value]

\* processUtterance() from the await on, for attempt k: what it throws or
\* returns.  A rejection is thrown by the await itself, before the token is
\* looked at.
processUtterance(k, outcome) ==
    IF outcome = "rejected" THEN [threw |-> TRUE, cancelled |-> FALSE]
    ELSE IF attempts[k].cancelled THEN [threw |-> TRUE, cancelled |-> TRUE]
    ELSE LET parsed == parseResponse(outcome) IN
         IF parsed.threw THEN [threw |-> TRUE, cancelled |-> FALSE]
         ELSE [threw |-> FALSE, value |-> parsed.value]

\* The continuation with the buffer emptied whatever the result.
Resume_AlwaysClear(k, outcome) ==
    LET r == processUtterance(k, outcome) IN
    /\ activeRequest' = IF activeRequest = k THEN NoRequest ELSE activeRequest
    /\ textBuffer' = <<>>
    /\ IF r.threw THEN
           /\ attempts' = [attempts EXCEPT ![k].status =
                              IF r.cancelled THEN "cancelled" ELSE "failed"]
           /\ errors' = IF r.cancelled THEN errors ELSE Append(errors, k)
           /\ UNCHANGED <<delivered, history, added>>
       ELSE
           /\ attempts' = [attempts EXCEPT ![k].status =
                              IF Truthy(r.value) THEN "succeeded" ELSE "empty"]
           /\ history' = IF Truthy(r.value)
                         THEN addUtterance(history, attempts[k].text)
                         ELSE history
           /\ added' = IF Truthy(r.value) THEN <<attempts[k].text>> \o added ELSE added
           /\ delivered' = Append(delivered, k)
           /\ UNCHANGED errors

\* The continuation with the text added to the history whenever the
\* completion call resolved.
Resume_HistoryAlways(k, outcome) ==
    LET r == processUtterance(k, outcome) IN
    /\ activeRequest' = IF activeRequest = k THEN NoRequest ELSE activeRequest
    /\ history' = IF outcome # "rejected"
                  THEN addUtterance(history, attempts[k].text)
                  ELSE history
    /\ added' = IF outcome # "rejected" THEN <<attempts[k].text>> \o added ELSE added
    /\ IF r.threw THEN
           /\ attempts' = [attempts EXCEPT ![k].status =
                              IF r.cancelled THEN "cancelled" ELSE "failed"]
           /\ errors' = IF r.cancelled THEN errors ELSE Append(errors, k)
           /\ UNCHANGED <<textBuffer, delivered>>
       ELSE
           /\ attempts' = [attempts EXCEPT ![k].status =
                              IF Truthy(r.value) THEN "succeeded" ELSE "empty"]
           /\ delivered' = Append(delivered, k)
           /\ textBuffer' = IF Truthy(r.value) THEN <<>> ELSE textBuffer
           /\ UNCHANGED errors

\* The completion call of attempt k settles: the rest of processUtterance(),
\* its finally, and the rest of tryProcessBuffer().
Resume(k, outcome) ==
    LET r == processUtterance(k, outcome) IN
    /\ activeRequest' = IF activeRequest = k THEN NoRequest ELSE activeRequest
    /\ IF r.threw THEN
           /\ attempts' = [attempts EXCEPT ![k].status =
                              IF r.cancelled THEN "cancelled" ELSE "failed"]
           /\ errors' = IF r.cancelled THEN errors ELSE Append(errors, k)
           /\ UNCHANGED <<textBuffer, delivered, history, added>>
       ELSE
           /\ attempts' = [attempts EXCEPT ![k].status =
                              IF Truthy(r.value) THEN "succeeded" ELSE "empty"]
           /\ history' = IF Truthy(r.value)
                         THEN addUtterance(history, attempts[k].text)
                         ELSE history
           /\ added' = IF Truthy(r.value) THEN <<attempts[k].text>> \o added ELSE added
           /\ delivered' = Append(delivered, k)
           /\ textBuffer' = IF Truthy(r.value) THEN <<>> ELSE textBuffer
           /\ UNCHANGED errors

CompletionSettles ==
    \E k \in 1..Len(attempts), outcome \in Outcomes :
        /\ attempts[k].status = "sent"
        /\ Resume(k, outcome)
        /\ UNCHANGED <<processTimeout, burst>>
        /\ UNCHANGED <<micVars, listenerVars, storeVars>>

(***************************************************************************)
(* The event store of BabyLoggerProvider and the onStructuredData callback *)
(* of the voice hook that feeds it.  An event is its id, the instant it    *)
(* occurred at and the rest of its payload (note); "" and 0 stand for an   *)
(* absent id and an absent occurredAt.                                     *)
(***************************************************************************)
Notes == {"bottle 60 ml", "bottle 90 ml"}

\* The instants an event can occur at, and the clock can show.
Instants == {1, 2}

Ids(store) == {store[i].id : i \in 1..Len(store)}

\* crypto.randomUUID(): an identifier never returned before.
randomUUID == "uuid-" \o ToString(minted + 1)

\* The identifiers the model's answer can carry: none, one it was never
\* shown, or one that was minted earlier (still stored or deleted since).
ResponseIds == {"", "abc123"} \cup {"uuid-" \o ToString(n) : n \in 1..minted}

\* The parsed responses.
Responses ==
    [id : ResponseIds, occurredAt : {0} \cup Instants, note : Notes]

\* Array.prototype.sort with the comparator of addEvent: most recent first,
\* events of the same instant in their previous order.
InsertEvent(sorted, e) ==
    LET before == {i \in 1..Len(sorted) : sorted[i].occurredAt >= e.occurredAt}
        n == Cardinality(before)
    IN SubSeq(sorted, 1, n) \o <<e>> \o SubSeq(sorted, n + 1, Len(sorted))

RECURSIVE SortEvents(_)
SortEvents(store) ==
    IF Len(store) = 0 THEN <<>>
    ELSE InsertEvent(SortEvents(SubSeq(store, 1, Len(store) - 1)), store[Len(store)])

\* addEvent with every event appended.
addEvent_AlwaysAppend(prev, event) ==
    SortEvents(Append(prev, [event EXCEPT !.id = IF @ # "" THEN @ ELSE randomUUID]))

\* addEvent with an event dropped when its id matches no stored event.
addEvent_DropUnknown(prev, event) ==
    LET newEvents ==
            IF event.id # "" /\ event.id \in Ids(prev)
            THEN [i \in 1..Len(prev) |-> IF prev[i].id = event.id THEN event ELSE prev[i]]
            ELSE IF event.id # "" THEN prev
            ELSE Append(prev, [event EXCEPT !.id = randomUUID])
    IN SortEvents(newEvents)

\* The updater addEvent passes to setEvents.
addEvent(prev, event) ==
    LET newEvents ==
            IF event.id # "" /\ event.id \in Ids(prev)
            THEN [i \in 1..Len(prev) |-> IF prev[i].id = event.id THEN event ELSE prev[i]]
            ELSE Append(prev, [event EXCEPT !.id = IF @ # "" THEN @ ELSE randomUUID])
    IN SortEvents(newEvents)

\* enrichedData of onStructuredData.
enrichedData(data, now) ==
    [id |-> IF data.id # "" THEN data.id ELSE randomUUID,
     occurredAt |-> IF data.occurredAt # 0 THEN data.occurredAt ELSE now,
     note |-> data.note]

StoreOp(name, data) == [name |-> name, data |-> data]

NoData == [id |-> "", occurredAt |-> 0, note |-> ""]

\* onStructuredData of the voice hook: both branches end in onNewEvent, which
\* is addEvent.
OnStructuredData ==
    \E data \in Responses, now \in Instants :
        LET next == addEvent(events, enrichedData(data, now)) IN
        /\ data.occurredAt # 0 => now = data.occurredAt
        /\ Len(next) <= MaxEvents
        /\ data.id = "" => minted < MaxMinted
        /\ events' = next
        /\ minted' = IF data.id = "" THEN minted + 1 ELSE minted
        /\ storeOp' = StoreOp("onStructuredData", data)
        /\ UNCHANGED <<micVars, listenerVars, loggerVars>>

\* generateEventHash(): the rolling hash ((hash << 5) - hash) + char over
\* the event's content without its id, here over one code per field instead
\* of one per character of the JSON text.  With two codes the value stays
\* far inside int32, where `hash & hash` changes nothing.
NoteCode(note) == IF note = "bottle 60 ml" THEN 60 ELSE 90

RECURSIVE HashCodes(_, _)
HashCodes(hash, codes) ==
    IF Len(codes) = 0 THEN hash
    ELSE HashCodes((hash * 32 - hash) + Head(codes), Tail(codes))

generateEventHash(event) ==
    LET hash == HashCodes(0, <<NoteCode(event.note), event.occurredAt>>) IN
    "synthetic_" \o ToString(IF hash < 0 THEN -hash ELSE hash)

\* The events a JSON file can hold, and the files.
ImportEvents == [id : {"", "abc123"}, occurredAt : Instants, note : {"bottle 90 ml"}]

ImportFiles == UNION {[1..n -> ImportEvents] : n \in 1..MaxImport}

\* events.forEach of handleFileUpload: each event goes to addEvent under its
\* id, or under the hash of its content when it has none.
RECURSIVE importEvents(_, _)
importEvents(prev, file) ==
    IF Len(file) = 0 THEN prev
    ELSE LET event == Head(file)
             eventToAdd == [event EXCEPT !.id = IF @ # "" THEN @
                                               ELSE generateEventHash(event)]
         IN importEvents(addEvent(prev, eventToAdd), Tail(file))

HandleFileUpload ==
    \E file \in ImportFiles :
        LET next == importEvents(events, file) IN
        /\ Len(next) <= MaxEvents
        /\ events' = next
        /\ storeOp' = StoreOp("import", file[1])
        /\ UNCHANGED <<minted, micVars, listenerVars, loggerVars>>

deleteEvent(prev, eventId) == SelectSeq(prev, LAMBDA e : e.id # eventId)

DeleteEvent ==
    \E eventId \in Ids(events) \cup {"abc123"} :
        /\ events' = deleteEvent(events, eventId)
        /\ storeOp' = StoreOp("deleteEvent", [NoData EXCEPT !.id = eventId])
        /\ UNCHANGED <<minted, micVars, listenerVars, loggerVars>>

ClearEvents ==
    /\ events' = <<>>
    /\ storeOp' = StoreOp("clearEvents", NoData)
    /\ UNCHANGED <<minted, micVars, listenerVars, loggerVars>>

InitMic ==
    /\ state = "DISABLED"
    /\ context = InitialContext
    /\ notified = [stateChange |-> FALSE, error |-> FALSE]
    /\ micEvent = "none"

InitListener ==
    /\ wakeWord = ToLowerCase("hey baby")
    /\ sleepWord = ToLowerCase("sleep")
    /\ recognitionActive = FALSE
    /\ mediaStream = NoStream
    /\ desiredListeningState = FALSE
    /\ restartTimeout = "null"
    /\ pendingStarts = 0
    /\ engine = "idle"
    /\ liveStreams = {}
    /\ visibility = "visible"
    /\ forceStopped = FALSE
    /\ listening = FALSE
    /\ trace = <<>>
    /\ op = Op("constructor")
    /\ chain = NoChain

InitLogger ==
    /\ textBuffer = <<>>
    /\ activeRequest = NoRequest
    /\ processTimeout = NoTimeout
    /\ attempts = <<>>
    /\ burst = <<>>
    /\ delivered = <<>>
    /\ errors = <<>>
    /\ history = <<>>
    /\ added = <<>>

InitStore ==
    /\ events = <<>>
    /\ minted = 0
    /\ storeOp = StoreOp("none", NoData)

Init == InitMic /\ InitListener /\ InitLogger /\ InitStore

\* The hook with any history of at most MaxHistory utterances behind it.
InitHistory ==
    /\ InitMic /\ InitListener /\ InitStore
    /\ textBuffer = <<>>
    /\ activeRequest = NoRequest
    /\ processTimeout = NoTimeout
    /\ attempts = <<>>
    /\ burst = <<>>
    /\ delivered = <<>>
    /\ errors = <<>>
    /\ history \in UNION {[1..n -> Fragments] : n \in 0..MaxHistory}
    /\ added = history

NextMic ==
    \/ enable \/ disable \/ wake \/ sleep \/ permissionGranted \/ permissionDenied

\* The wake-word gate: every transcript, and the lifecycle steps that bring
\* the state machine and the engine into each state a result can meet.
NextGate ==
    \/ SetListening
    \/ GetUserMediaResolves \/ GetUserMediaRejects
    \/ HandleResult \/ HandleEnd

\* The listener's lifecycle: every handler, with a few transcripts.
NextListener ==
    \/ Start \/ Stop \/ SetListening
    \/ GetUserMediaResolves \/ GetUserMediaRejects
    \/ HandleCommand \/ HandleError \/ HandleEnd
    \/ RestartTimer \/ HandleVisibilityChange

\* The recognition session: everything that starts, ends or restarts the
\* engine, without the transcripts.
NextSession ==
    \/ SetListening
    \/ GetUserMediaResolves \/ GetUserMediaRejects
    \/ HandleError \/ HandleEnd
    \/ RestartTimer \/ HandleVisibilityChange

\* The phrases: the two setters, and the results that meet the phrases.
NextPhrases ==
    \/ SetListening
    \/ GetUserMediaResolves
    \/ UpdateWakeWord \/ UpdateSleepWord
    \/ HandlePhrase

\* The recognition session with the engine's sound and speech events.
NextSounds ==
    \/ SetListening
    \/ GetUserMediaResolves \/ GetUserMediaRejects
    \/ HandleSound \/ HandleEnd
    \/ RestartTimer

NextLogger ==
    \/ OnUtterance \/ Tick \/ DebounceTimer \/ CompletionSettles

NextStore ==
    \/ OnStructuredData \/ HandleFileUpload \/ DeleteEvent \/ ClearEvents

NextHistory == AddUtterance

SpecMic == Init /\ [][NextMic]_vars
SpecLogger == Init /\ [][NextLogger]_vars
SpecGate == Init /\ [][NextGate]_vars
SpecListener == Init /\ [][NextListener]_vars
SpecSession == Init /\ [][NextSession]_vars
SpecStore == Init /\ [][NextStore]_vars

\* The session with its timer: an armed restart timer fires after 100 ms.
FairSession == SpecSession /\ WF_vars(RestartTimer)
SpecHistory == InitHistory /\ [][NextHistory]_vars
SpecSounds == Init /\ [][NextSounds]_vars
SpecPhrases == Init /\ [][NextPhrases]_vars

(***************************************************************************)
(* Properties                                                              *)
(***************************************************************************)
Range(seq) == {seq[i] : i \in 1..Len(seq)}

InFlight(k) == attempts[k].status = "sent"

\* The debounce timer fires in this step.
TimerFires == processTimeout # NoTimeout /\ processTimeout' = NoTimeout

\* Attempt k ends in this step with the given status.
Ends(k, status) == attempts[k].status = "sent" /\ attempts'[k].status = status

\* C1: at any time at most one extraction attempt that is still in flight
\* has a token with cancelled = false.
C1_AtMostOneLiveAttempt ==
    Cardinality({k \in 1..Len(attempts) : InFlight(k) /\ ~attempts[k].cancelled}) <= 1

\* Two attempts in flight at once, the older one cancelled.
C1_Witness ==
    \E j, k \in 1..Len(attempts) :
        /\ j < k
        /\ InFlight(j) /\ attempts[j].cancelled
        /\ InFlight(k) /\ ~attempts[k].cancelled

\* C2: an attempt that was superseded while in flight (its token is
\* cancelled) never invokes onStructuredData and never invokes onError,
\* whatever its completion call does.
C2_SupersededAttemptIsSilent ==
    \A k \in 1..Len(attempts) :
        attempts[k].cancelled => k \notin Range(delivered) /\ k \notin Range(errors)

\* C3: every onStructuredData invocation is made by the most recently
\* triggered attempt, so events are delivered in the order of their attempts.
C3_OnlyLatestAttemptDelivers ==
    [][delivered' # delivered =>
          /\ delivered' = Append(delivered, Len(attempts'))
          /\ \A i \in 1..Len(delivered) : delivered[i] < Len(attempts')]_vars

\* The newer attempt delivered; the older one resolved afterwards or before,
\* cancelled, and delivered nothing.
C3_Witness ==
    /\ Len(attempts) >= 2
    /\ attempts[1].status = "cancelled"
    /\ delivered = <<2>>

\* C4: a burst of fragments followed by a quiet period of the debounce
\* interval starts exactly one attempt, whose text is the buffered fragments
\* (ending with the burst) in arrival order joined by single spaces.
C4_OneAttemptPerBurst ==
    [][TimerFires /\ burst # <<>> =>
          /\ Len(attempts') = Len(attempts) + 1
          /\ Len(textBuffer) >= Len(burst)
          /\ SubSeq(textBuffer, Len(textBuffer) - Len(burst) + 1, Len(textBuffer)) = burst
          /\ attempts'[Len(attempts')].text = Join(textBuffer, " ")]_vars

\* C5: a failing attempt leaves the buffer as it was; only a successful
\* extraction empties it; the firing after a failure resubmits the failed
\* attempt's fragments, once each and in order, followed by the new ones.
C5_FailureKeepsBuffer ==
    [][/\ (\E k \in 1..Len(attempts) : Ends(k, "failed")) => textBuffer' = textBuffer
       /\ (textBuffer # <<>> /\ textBuffer' = <<>>) =>
             \E k \in 1..Len(attempts) : Ends(k, "succeeded")
       /\ (TimerFires /\ Len(attempts) >= 1 /\ attempts[Len(attempts)].status = "failed") =>
             /\ Len(attempts') = Len(attempts) + 1
             /\ attempts'[Len(attempts')].text =
                    Join(attempts[Len(attempts)].buffer \o burst, " ")]_vars

\* "bottle" failed and was resubmitted with the next fragment.
C5_Witness ==
    /\ Len(attempts) = 2
    /\ attempts[1].status = "failed" /\ ~attempts[1].cancelled
    /\ attempts[1].text = "bottle"
    /\ attempts[2].text = "bottle sixty ml"

\* The (state, event) pairs the transition table lists.
ListedPairs ==
    {<<"DISABLED", "ENABLE">>,
     <<"REQUESTING_PERMISSION", "PERMISSION_GRANTED">>,
     <<"REQUESTING_PERMISSION", "PERMISSION_DENIED">>,
     <<"REQUESTING_PERMISSION", "DISABLE">>,
     <<"SLEEPING", "DISABLE">>, <<"SLEEPING", "WAKE">>,
     <<"SLEEPING", "PERMISSION_DENIED">>,
     <<"AWAKE", "DISABLE">>, <<"AWAKE", "SLEEP">>, <<"AWAKE", "PERMISSION_DENIED">>}

\* C6: under every sequence of the six events the state is one of the four
\* states, and an event in a state the table does not list it for changes
\* neither the state nor the context.
C6_DefinedStatesAndNoOps ==
    /\ [](state \in MicStates)
    /\ [][<<state, micEvent'>> \notin ListedPairs =>
             state' = state /\ context' = context]_vars

\* Sleep was sent while requesting permission and did nothing.
C6_Witness ==
    /\ micEvent = "SLEEP"
    /\ state = "REQUESTING_PERMISSION"
    /\ notified = [stateChange |-> FALSE, error |-> FALSE]

\* C7: awakeningId starts at 0, grows by exactly 1 on each step from
\* Sleeping to Awake and is unchanged by every other step.
C7_AwakeningIdCountsWakes ==
    /\ context.awakeningId = 0
    /\ [][context'.awakeningId =
             IF state = "SLEEPING" /\ state' = "AWAKE"
             THEN context.awakeningId + 1
             ELSE context.awakeningId]_vars

\* Enabled again after two awakenings, the counter kept.
C7_Witness ==
    /\ state = "REQUESTING_PERMISSION"
    /\ micEvent = "ENABLE"
    /\ context.awakeningId = 2

\* The text after the last occurrence of w in t.
AfterLast(t, w) ==
    LET hits == {i \in 1..(Len(t) - Len(w) + 1) : SubSeq(t, i, i + Len(w) - 1) = w}
        last == CHOOSE i \in hits : \A j \in hits : j <= i
    IN SubSeq(t, last + Len(w), Len(t))

\* The text before the first occurrence of w in t.
BeforeFirst(t, w) ==
    LET hits == {i \in 1..(Len(t) - Len(w) + 1) : SubSeq(t, i, i + Len(w) - 1) = w}
        first == CHOOSE i \in hits : \A j \in hits : i <= j
    IN SubSeq(t, 1, first - 1)

\* The handler ran in this step on the final transcript raw.
Handled(raw) == op' = [Op("handleResult") EXCEPT !.text = raw, !.flag = TRUE]

\* C8: a final transcript with the wake phrase, handled while Sleeping, wakes
\* the machine and forwards the trimmed text after the wake phrase as one
\* utterance if that text is non-empty and without the sleep phrase;
\* otherwise it forwards nothing.
C8_WakePhraseWakesAndForwards ==
    [][\A raw \in Transcripts :
          Handled(raw) /\ state = "SLEEPING" =>
             LET heard == Trim(ToLowerCase(raw))
                 after == Trim(AfterLast(heard, wakeWord))
             IN Includes(heard, wakeWord) =>
                   /\ state' = "AWAKE"
                   /\ trace' = <<onStateChange(TRUE, context.awakeningId + 1)>> \o
                               (IF after # "" /\ ~Includes(after, sleepWord)
                                THEN <<onUtterance(after)>>
                                ELSE <<>>)]_vars

C8_Witness ==
    /\ op = [Op("handleResult") EXCEPT !.text = "hey baby bottle sixty ml", !.flag = TRUE]
    /\ state = "AWAKE"
    /\ trace = <<onStateChange(TRUE, context.awakeningId), onUtterance("bottle sixty ml")>>

\* C9: a final transcript with the sleep phrase, handled while Awake, forwards
\* the trimmed text before the first sleep phrase if it is non-empty and
\* without the wake phrase, and only then goes to Sleeping.
C9_ForwardThenSleep ==
    [][\A raw \in Transcripts :
          Handled(raw) /\ state = "AWAKE" =>
             LET heard == Trim(ToLowerCase(raw))
                 before == Trim(BeforeFirst(heard, sleepWord))
             IN Includes(heard, sleepWord) =>
                   /\ state' = "SLEEPING"
                   /\ trace' = (IF before # "" /\ ~Includes(before, wakeWord)
                                THEN <<onUtterance(before)>>
                                ELSE <<>>) \o
                               <<onStateChange(FALSE, context.awakeningId)>>]_vars

C9_Witness ==
    /\ op = [Op("handleResult") EXCEPT !.text = "feeding done now sleep", !.flag = TRUE]
    /\ state = "SLEEPING"
    /\ trace = <<onUtterance("feeding done now"), onStateChange(FALSE, context.awakeningId)>>

\* stop() ran in the step that led here: called directly, or by
\* setListening(false) while recognition was active.
StopRan(o) == o.called = "stop"

\* C10: when stop() completes, also when the engine's stop() threw, the
\* stream the listener held is released and the reference cleared,
\* recognition is inactive, the machine is Disabled and no restart timer is
\* left; stop() called again right then changes nothing and calls nothing.
C10_StopReleasesEverything ==
    [][/\ StopRan(op') =>
             /\ mediaStream' = NoStream
             /\ mediaStream \notin liveStreams'
             /\ liveStreams' \subseteq liveStreams
             /\ recognitionActive' = FALSE
             /\ state' = "DISABLED"
             /\ restartTimeout' = "null"
       /\ StopRan(op) /\ op'.name = "stop" =>
             /\ UNCHANGED <<state, context, recognitionActive, mediaStream,
                            desiredListeningState, restartTimeout, liveStreams>>
             /\ trace' = <<>>]_vars

\* The engine's stop() threw while a stream was held, and the stream is gone.
C10_Witness ==
    /\ op.name = "stop"
    /\ op.threw
    /\ op.held # NoStream
    /\ mediaStream = NoStream
    /\ op.held \notin liveStreams

UnstableRecognitionError == "UnstableRecognitionError"

\* C11: of the engine's immediate ends in a row while listening is desired,
\* each of the first three finds every earlier one restarted and schedules a
\* restart itself; the fourth raises UnstableRecognitionError once and
\* schedules no restart.
C11_ThreeRestartsThenUnstable ==
    [][op'.name = "handleEnd" /\ desiredListeningState /\ state # "DISABLED" =>
          IF chain'.ends <= 3
          THEN /\ chain'.restarts = chain'.ends - 1
               /\ restartTimeout' = "armed"
               /\ onError(UnstableRecognitionError) \notin Range(trace')
          ELSE /\ chain'.restarts = 3
               /\ restartTimeout' # "armed"
               /\ trace' = <<onError(UnstableRecognitionError)>>]_vars

\* C12: a not-allowed or permission-denied error leaves the machine Disabled
\* and recognition inactive; and while the listener is Disabled and inactive
\* no step but a call of start() (directly or by setListening(true)) leaves
\* Disabled, sets recognition active or starts the engine: not the end
\* event, not the restart timer, not the page becoming visible.
C12_DenialStopsRestarts ==
    [][/\ (op'.name = "handleError" /\ op'.text \in {"not-allowed", "permission-denied"}) =>
             state' = "DISABLED" /\ ~recognitionActive'
       /\ (state = "DISABLED" /\ ~recognitionActive /\ op'.called # "start") =>
             /\ state' = "DISABLED"
             /\ ~recognitionActive'
             /\ engine' = "running" => engine = "running"]_vars

\* The engine reported not-allowed while a restart timer was pending and
\* listening was desired.
C12_Witness ==
    /\ op.name = "handleError" /\ op.text = "not-allowed"
    /\ state = "DISABLED"
    /\ restartTimeout = "armed"
    /\ desiredListeningState

\* The stored events other than the one with this id, in store order.
Others(store, id) == SelectSeq(store, LAMBDA e : e.id # id)

\* The response committed in this step.
Committed == storeOp'.data

\* C13: a parsed response without an id adds exactly one event, under an
\* identifier no stored event has, and keeps every stored event; a response
\* with the id of a stored event replaces that event, keeps the id and the
\* number of events, and keeps every other event.
C13_CreateOrUpdate ==
    [][storeOp'.name = "onStructuredData" =>
          /\ Committed.id = "" =>
                /\ Len(events') = Len(events) + 1
                /\ \E i \in 1..Len(events') :
                      /\ events'[i].id \notin Ids(events) \cup {""}
                      /\ events'[i].note = Committed.note
                      /\ Others(events', events'[i].id) = events
          /\ Committed.id \in Ids(events) =>
                /\ Len(events') = Len(events)
                /\ Ids(events') = Ids(events)
                /\ \E i \in 1..Len(events') :
                      /\ events'[i].id = Committed.id
                      /\ events'[i].note = Committed.note
                /\ Range(Others(events', Committed.id)) = Range(Others(events, Committed.id))]_vars

\* An event was created, then updated under its id with another payload.
C13_Witness ==
    /\ storeOp.name = "onStructuredData"
    /\ storeOp.data.id = "uuid-1"
    /\ storeOp.data.note = "bottle 90 ml"
    /\ Len(events) = 2
    /\ \E i \in 1..2 : events[i].id = "uuid-1" /\ events[i].note = "bottle 90 ml"

\* The texts of the first n attempts that succeeded, the newest first.
RECURSIVE SuccessfulTexts(_)
SuccessfulTexts(n) ==
    IF n = 0 THEN <<>>
    ELSE IF attempts[n].status = "succeeded"
    THEN <<attempts[n].text>> \o SuccessfulTexts(n - 1)
    ELSE SuccessfulTexts(n - 1)

\* C14: the utterance history holds exactly the texts of the attempts that
\* succeeded (the newest first, as many as the history keeps): an attempt
\* that failed, was cancelled or parsed to nothing adds no entry.
C14_HistoryOfSuccessesOnly ==
    LET texts == SuccessfulTexts(Len(attempts)) IN
    history = SubSeq(texts, 1, IF Len(texts) < MaxHistory THEN Len(texts) ELSE MaxHistory)

\* The first attempt was cancelled and its call has settled, the second
\* succeeded and is alone in the history.
C14_Witness ==
    /\ Len(attempts) = 2
    /\ attempts[1].status = "cancelled"
    /\ attempts[2].status = "succeeded"
    /\ history = <<attempts[2].text>>

\* C15: an event invokes onStateChange exactly when it changed the state or
\* the context, and onError exactly when it left an error in the context
\* that differs from the one before; an event that changes nothing invokes
\* neither.
C15_CallbacksOnlyOnChange ==
    [][micEvent' \in MicEvents =>
          /\ notified'.stateChange <=> (state' # state \/ context' # context)
          /\ notified'.error <=>
                (context'.error # NoError /\ context'.error # context.error)]_vars

\* A denial repeated while Disabled, the first one's error still set: no
\* callback.
C15_Witness ==
    /\ micEvent = "PERMISSION_DENIED"
    /\ state = "DISABLED"
    /\ context.error = ErrPermissionDenied
    /\ notified = [stateChange |-> FALSE, error |-> FALSE]

\* C16: an interim result changes neither the state nor the context (with
\* its awakeningId) nor the utterance buffer and makes no callback, so
\* forwards no utterance, whatever its text.
C16_InterimIgnored ==
    [][op'.name = "handleResult" /\ ~op'.flag =>
          /\ UNCHANGED <<state, context, textBuffer>>
          /\ trace' = <<>>]_vars

\* An interim result with the wake phrase arrived while Sleeping.
C16_Witness ==
    /\ op = [Op("handleResult") EXCEPT !.text = "hey baby bot"]
    /\ state = "SLEEPING"
    /\ trace = <<>>

\* C17: updateWakeWord and updateSleepWord store the phrase in lower case
\* and change nothing else of the listener and call nothing; and a final
\* transcript wakes a Sleeping machine exactly if it contains the wake
\* phrase stored last, and puts an Awake one to sleep exactly if it contains
\* the sleep phrase stored last.
C17_PhraseUpdatesOnlyPhrase ==
    [][/\ op'.name = "updateWakeWord" =>
             /\ wakeWord' = ToLowerCase(op'.text)
             /\ UNCHANGED <<sleepWord, state, context, recognitionActive, mediaStream,
                            restartTimeout, desiredListeningState, engine, liveStreams>>
             /\ trace' = <<>>
       /\ op'.name = "updateSleepWord" =>
             /\ sleepWord' = ToLowerCase(op'.text)
             /\ UNCHANGED <<wakeWord, state, context, recognitionActive, mediaStream,
                            restartTimeout, desiredListeningState, engine, liveStreams>>
             /\ trace' = <<>>
       /\ \A raw \in PhraseTranscripts :
             Handled(raw) =>
                LET heard == Trim(ToLowerCase(raw)) IN
                /\ state = "SLEEPING" => (state' = "AWAKE" <=> Includes(heard, wakeWord))
                /\ state = "AWAKE" => (state' = "SLEEPING" <=> Includes(heard, sleepWord))]_vars

\* The wake phrase was changed while the engine ran, and the new phrase woke
\* the machine.
C17_Witness ==
    /\ op = [Op("handleResult") EXCEPT !.text = "Hey Bub bottle", !.flag = TRUE]
    /\ wakeWord = "hey bub"
    /\ state = "AWAKE"
    /\ trace = <<onStateChange(TRUE, context.awakeningId), onUtterance("bottle")>>

\* C18: on the 4 states x 6 events the next state and context are those of
\* the table: Disabled+Enable to RequestingPermission with the error
\* cleared; RequestingPermission+PermissionGranted to Sleeping with
\* hasPermission true; RequestingPermission+PermissionDenied to Disabled
\* with hasPermission false and an error set; RequestingPermission+Disable
\* to Disabled with the context unchanged; Disable and PermissionDenied in
\* Sleeping and Awake to Disabled; Awake+Sleep to Sleeping; every other pair
\* but Sleeping+Wake changes neither state nor context.
C18_TransitionTable ==
    [][micEvent' \in MicEvents =>
          LET pair == <<state, micEvent'>> IN
          CASE pair = <<"DISABLED", "ENABLE">> ->
                  /\ state' = "REQUESTING_PERMISSION"
                  /\ context' = [context EXCEPT !.error = NoError]
            [] pair = <<"REQUESTING_PERMISSION", "PERMISSION_GRANTED">> ->
                  /\ state' = "SLEEPING"
                  /\ context'.hasPermission = TRUE
                  /\ context'.awakeningId = context.awakeningId
            [] pair = <<"REQUESTING_PERMISSION", "PERMISSION_DENIED">> ->
                  /\ state' = "DISABLED"
                  /\ context'.hasPermission = FALSE
                  /\ context'.error # NoError
                  /\ context'.awakeningId = context.awakeningId
            [] pair = <<"REQUESTING_PERMISSION", "DISABLE">> ->
                  /\ state' = "DISABLED"
                  /\ context' = context
            [] pair \in {"SLEEPING", "AWAKE"} \X {"DISABLE", "PERMISSION_DENIED"} ->
                  /\ state' = "DISABLED"
                  /\ context'.awakeningId = context.awakeningId
            [] pair = <<"AWAKE", "SLEEP">> ->
                  /\ state' = "SLEEPING"
                  /\ context'.awakeningId = context.awakeningId
            [] pair = <<"SLEEPING", "WAKE">> -> TRUE
            [] OTHER -> state' = state /\ context' = context]_vars

\* Disable arrived while the permission prompt was open: Disabled, the
\* context as it was.
C18_Witness ==
    /\ micEvent = "DISABLE"
    /\ state = "DISABLED"
    /\ notified.stateChange
    /\ ~context.hasPermission
    /\ context.awakeningId = 0

\* The contexts a state machine can hold.
Contexts ==
    [hasPermission : BOOLEAN,
     error : {NoError, ErrPermissionDenied, ErrCannotWake},
     awakeningId : 0..MaxAwakenings]

\* C19: Wake in Sleeping leads to Awake with awakeningId one higher exactly
\* if hasPermission is true; with hasPermission false it leads to Disabled
\* with the explanatory error set and awakeningId unchanged; the transition
\* is defined (throws nothing) for every context.
C19_WakeNeedsPermission ==
    /\ [][state = "SLEEPING" /\ micEvent' = "WAKE" =>
             IF context.hasPermission
             THEN /\ state' = "AWAKE"
                  /\ context'.awakeningId = context.awakeningId + 1
             ELSE /\ state' = "DISABLED"
                  /\ context' = [context EXCEPT !.error = ErrCannotWake]]_vars
    /\ [](\A ctx \in Contexts :
             LET next == MicSwitch("SLEEPING", ctx, "WAKE") IN
             IF ctx.hasPermission
             THEN /\ next.state = "AWAKE"
                  /\ next.context.awakeningId = ctx.awakeningId + 1
             ELSE /\ next.state = "DISABLED"
                  /\ next.context = [ctx EXCEPT !.error = ErrCannotWake])

\* Woken a second time: Awake, the second awakening.
C19_Witness ==
    /\ micEvent = "WAKE"
    /\ state = "AWAKE"
    /\ notified.stateChange
    /\ context.hasPermission
    /\ context.awakeningId = 2

\* C20: every end of the engine while listening is desired and the machine
\* is not Disabled schedules a restart, and recognition is then eventually
\* active again unless listening is switched off or the machine Disabled
\* meanwhile.
C20_EveryEndRestarts ==
    /\ [][op'.name = "handleEnd" /\ desiredListeningState /\ state # "DISABLED" =>
             restartTimeout' = "armed"]_vars
    /\ (op.name = "handleEnd" /\ desiredListeningState /\ state # "DISABLED")
          ~> (recognitionActive \/ ~desiredListeningState \/ state = "DISABLED")

\* C21: the page becoming hidden while recognition is active leaves it
\* inactive; while the page then stays hidden no step but a call of start()
\* or its resumption makes recognition active again; and the page becoming
\* visible with listening desired, the machine Sleeping or Awake, a stream
\* held and the engine idle starts recognition.
C21_HiddenStopsVisibleRestarts ==
    [][/\ (op'.name = "visibilitychange" /\ op'.text = "hidden") => ~recognitionActive'
       /\ (forceStopped /\ forceStopped' /\ op'.called # "start"
              /\ op'.name # "getUserMedia") =>
             (recognitionActive' => recognitionActive)
       /\ (op'.name = "visibilitychange" /\ op'.text = "visible"
              /\ desiredListeningState /\ state \in {"SLEEPING", "AWAKE"}
              /\ mediaStream # NoStream /\ engine = "idle") =>
             recognitionActive' /\ engine' = "running"]_vars

\* C22: a no-speech error leaves the machine's state and context as they
\* were, makes no onError callback, and schedules a restart when listening
\* is desired and the machine is not Disabled.
C22_NoSpeechIsSilent ==
    [][op'.name = "handleError" /\ op'.text = "no-speech" =>
          /\ state' = state /\ context' = context
          /\ \A i \in 1..Len(trace') : trace'[i].cb # "onError"
          /\ (desiredListeningState /\ state # "DISABLED") => restartTimeout' = "armed"]_vars

\* C23: when getUserMedia rejects, the start() that awaited it leaves the
\* machine Disabled without permission and with the error set, no media
\* stream held and recognition inactive, and rejects.
C23_DeniedStartDisablesAndReleases ==
    [][op'.name = "getUserMedia" /\ op'.text = "denied" =>
          /\ state' = "DISABLED"
          /\ ~context'.hasPermission
          /\ context'.error # NoError
          /\ mediaStream' = NoStream
          /\ ~recognitionActive'
          /\ op'.threw]_vars

\* C24: a final transcript without the wake and the sleep phrase, handled
\* while Awake, is forwarded whole (lower-cased and trimmed, as heard) as one
\* utterance and leaves state and context as they were; a final transcript
\* without the wake phrase, handled while not Awake, makes no callback and
\* leaves state and context as they were.
C24_PlainTranscript ==
    [][\A raw \in Transcripts :
          Handled(raw) =>
             LET heard == Trim(ToLowerCase(raw)) IN
             /\ (state = "AWAKE" /\ ~Includes(heard, wakeWord)
                    /\ ~Includes(heard, sleepWord)) =>
                   /\ trace' = <<onUtterance(heard)>>
                   /\ state' = state /\ context' = context
             /\ (state # "AWAKE" /\ ~Includes(heard, wakeWord)) =>
                   /\ trace' = <<>>
                   /\ state' = state /\ context' = context]_vars

\* A plain transcript was forwarded while Awake.
C24_Witness ==
    /\ op = [Op("handleResult") EXCEPT !.text = " wet diaper ", !.flag = TRUE]
    /\ state = "AWAKE"
    /\ trace = <<onUtterance("wet diaper")>>

\* C25: a final transcript that is the wake phrase, handled while Sleeping,
\* wakes the machine and forwards nothing; a final transcript that is the
\* sleep phrase, handled while Awake, sends the machine to Sleeping and
\* forwards nothing.
C25_ExactPhraseOnlyTransitions ==
    [][\A raw \in Transcripts :
          Handled(raw) =>
             LET heard == Trim(ToLowerCase(raw)) IN
             /\ (state = "SLEEPING" /\ heard = wakeWord) =>
                   /\ state' = "AWAKE"
                   /\ trace' = <<onStateChange(TRUE, context.awakeningId + 1)>>
             /\ (state = "AWAKE" /\ heard = sleepWord) =>
                   /\ state' = "SLEEPING"
                   /\ trace' = <<onStateChange(FALSE, context.awakeningId)>>]_vars

\* The wake phrase alone woke the machine.
C25_Witness ==
    /\ op = [Op("handleResult") EXCEPT !.text = "Hey Baby", !.flag = TRUE]
    /\ state = "AWAKE"
    /\ trace = <<onStateChange(TRUE, context.awakeningId)>>

\* C26: a parsed response with an id no stored event has adds exactly one
\* event, under that id and with the response's payload, and keeps every
\* stored event as it was.
C26_UnknownIdIsAdded ==
    [][(storeOp'.name = "onStructuredData" /\ Committed.id # ""
           /\ Committed.id \notin Ids(events)) =>
          /\ Len(events') = Len(events) + 1
          /\ Cardinality({i \in 1..Len(events') : events'[i].id = Committed.id}) = 1
          /\ \E i \in 1..Len(events') :
                /\ events'[i].id = Committed.id
                /\ events'[i].note = Committed.note
          /\ Others(events', Committed.id) = events]_vars

\* A response under an id the store never issued was added next to a
\* stored event.
C26_Witness ==
    /\ storeOp.name = "onStructuredData"
    /\ storeOp.data.id = "abc123"
    /\ Len(events) = 2
    /\ Cardinality({i \in 1..Len(events) : events[i].id = "abc123"}) = 1
    /\ \E i \in 1..Len(events) : events[i].id = "uuid-1"

\* C27: from a history of at most 10 entries on, after any addUtterance
\* calls the history holds at most 10 entries, and they are the 10 most
\* recently added utterances (all of them when fewer), the newest first.
C27_HistoryIsLastTen ==
    /\ Len(history) <= 10
    /\ history = SubSeq(added, 1, IF Len(added) < 10 THEN Len(added) ELSE 10)

\* Two utterances were added to a full history, and the oldest entry that
\* stays differs from the newest that went.
C27_Witness ==
    /\ Len(added) = 12
    /\ Len(history) = 10
    /\ history[10] = added[10]
    /\ added[11] # added[10]

\* C28: a speech-ended or sound-ended signal, received while listening is
\* desired and the machine is not Disabled, leaves a timer armed whose
\* firing restarts the session.
C28_SilenceTimerArmed ==
    [][(op'.name \in {"speechend", "soundend"} /\ desiredListeningState
           /\ state # "DISABLED") =>
          restartTimeout' = "armed"]_vars

\* C29: an attempt that succeeds takes out of the buffer the fragments it
\* submitted and no others: the fragments pushed while it was in flight are
\* the buffer afterwards, in their order.
C29_SuccessKeepsLaterFragments ==
    [][\A k \in 1..Len(attempts) :
          Ends(k, "succeeded") =>
             textBuffer' = SubSeq(textBuffer, Len(attempts[k].buffer) + 1, Len(textBuffer))]_vars

\* C30: from the return of setListening(false) until setListening(true) or
\* start() is called, recognition is inactive and no media stream is held,
\* also when setListening(false) was called between an end event and the
\* firing of the restart timer it scheduled.
C30_SetListeningFalseHolds ==
    /\ [][(op'.name = "setListening" /\ ~op'.flag) =>
             ~recognitionActive' /\ mediaStream' = NoStream]_vars
    /\ [][(~desiredListeningState /\ ~recognitionActive /\ mediaStream = NoStream
              /\ op'.called # "start" /\ op'.name # "getUserMedia") =>
             ~recognitionActive' /\ mediaStream' = NoStream]_vars

\* C31: whenever the machine is Disabled and no start() call is suspended in
\* getUserMedia, the listener holds no media stream.
C31_DisabledHoldsNoStream ==
    (state = "DISABLED" /\ pendingStarts = 0) => mediaStream = NoStream

\* C32: handleResult forwards an utterance only when the machine is Awake
\* at the moment of forwarding: a step of handleResult whose callbacks hold
\* an onUtterance ends with the machine Awake or began with it Awake.
C32_ForwardOnlyWhenAwake ==
    [][op'.name = "handleResult" =>
          ((\E i \in 1..Len(trace') : trace'[i].cb = "onUtterance") =>
              (state = "AWAKE" \/ state' = "AWAKE"))]_vars

\* C33: when an attempt's completion call settles, onStructuredData is
\* invoked for it if and only if its text is added to the utterance history
\* and the buffer is emptied, whatever value the response parsed to.
C33_SuccessIsAllOrNothing ==
    [][\A k \in 1..Len(attempts) :
          (attempts[k].status = "sent" /\ attempts'[k].status # "sent") =>
             ((delivered' = Append(delivered, k)) <=>
                 (added' = <<attempts[k].text>> \o added /\ textBuffer' = <<>>))]_vars

\* C34: in every reachable state of the state machine, Sleeping or Awake
\* implies hasPermission, and the error of a wake without permission is
\* never set.
C34_ListeningImpliesPermission ==
    /\ state \in {"SLEEPING", "AWAKE"} => context.hasPermission
    /\ context.error # ErrCannotWake

\* Sleeping again after one awakening, the permission kept.
C34_Witness ==
    /\ state = "SLEEPING"
    /\ micEvent = "SLEEP"
    /\ context.hasPermission
    /\ context.awakeningId = 1

\* C35 as stated: a set error implies Disabled, the Enable that leaves
\* Disabled clears the error, and every PermissionDenied event makes the
\* machine call onError.
C35_EveryDenialNotifies ==
    /\ [](context.error # NoError => state = "DISABLED")
    /\ [][(state = "DISABLED" /\ micEvent' = "ENABLE") => context'.error = NoError]_vars
    /\ [][micEvent' = "PERMISSION_DENIED" => notified'.error]_vars

\* C35: a set error implies Disabled, the Enable that leaves Disabled clears
\* the error, and a PermissionDenied event makes the machine call onError
\* exactly when it arrives outside Disabled; one that arrives while Disabled
\* is ignored and calls nothing.
C35_ErrorOnlyWhenDisabled ==
    /\ [](context.error # NoError => state = "DISABLED")
    /\ [][(state = "DISABLED" /\ micEvent' = "ENABLE") => context'.error = NoError]_vars
    /\ [][micEvent' = "PERMISSION_DENIED" =>
             IF state # "DISABLED"
             THEN notified'.error /\ context'.error = ErrPermissionDenied
             ELSE ~notified'.error /\ ~notified'.stateChange /\ context' = context]_vars

\* A second denial, after the first one's error was cleared by Enable.
C35_Witness ==
    /\ micEvent = "PERMISSION_DENIED"
    /\ state = "DISABLED"
    /\ notified.error
    /\ context.error = ErrPermissionDenied
    /\ context.awakeningId = 1

\* C36: no call of startRecognition() -- by a resuming start(), the restart
\* timer or the page becoming visible -- invokes the engine's start() while
\* the engine has not delivered the end event of its previous run: when such
\* a call throws, the engine was idle (the failure is the missing stream or
\* the denial), never the engine's InvalidStateError.
C36_EngineStartedOnlyWhenIdle ==
    [][(op'.name \in {"restartTimer", "getUserMedia"}
           \/ (op'.name = "visibilitychange" /\ op'.text = "visible")) =>
          (op'.threw => (engine = "idle" \/ op'.text = "denied"))]_vars

\* C37: the last value passed to onListeningChange (false before the first
\* callback) is the listener's recognition-active flag.
C37_ListeningChangeTracksFlag ==
    listening = recognitionActive

\* C38: when start() fails after getUserMedia resolved (startRecognition
\* threw), the machine is not told of a denial: hasPermission is true
\* afterwards and no permission-denied error is set.
C38_EngineFailureIsNotDenial ==
    [][(op'.name = "getUserMedia" /\ op'.text = "granted" /\ op'.threw) =>
          /\ context'.hasPermission
          /\ context'.error # ErrPermissionDenied]_vars

\* C39: the ids of the stored events are pairwise distinct after any
\* sequence of voice creations, voice updates, imports and deletions; and
\* deleteEvent takes out the event with the given id and no other.
C39_IdsStayDistinct ==
    /\ [](\A i, j \in 1..Len(events) : i # j => events[i].id # events[j].id)
    /\ [][storeOp'.name = "deleteEvent" =>
             /\ Range(events') = {e \in Range(events) : e.id # storeOp'.data.id}
             /\ Len(events') = Len(events) -
                   (IF storeOp'.data.id \in Ids(events) THEN 1 ELSE 0)]_vars

\* The event with the id abc123 was deleted; the one that stays is an
\* imported event stored under the hash of its content.
C39_Witness ==
    /\ storeOp.name = "deleteEvent"
    /\ storeOp.data.id = "abc123"
    /\ Len(events) = 1
    /\ events[1].id = generateEventHash(events[1])

====
